---- MODULE Spec2Model ----
(***************************************************************************)
(* A model of src/index.tsx: a single-page image generator.  The state is  *)
(* the module-level variables of the page, the parts of the DOM the code   *)
(* reads and writes, the browser's localStorage, the hosting environment   *)
(* (process.env.API_KEY, window.aistudio) and the pending generate()       *)
(* calls, each suspended at one of its awaits.                             *)
(*                                                                         *)
(* Text (prompt, key, stored values, error messages) is a sequence of      *)
(* one-character or one-phrase strings, so that trim(), includes() and     *)
(* the JSON conversions are computed, not assumed.                         *)
(*                                                                         *)
(* The size and aspect-ratio selectors are modelled as controls (they are  *)
(* disabled and enabled with the others); the values they select are       *)
(* passed through to the API unchanged and decide nothing, so they are not *)
(* part of the state.                                                      *)
(***************************************************************************)
EXTENDS Integers, Sequences, FiniteSets, TLC

\* ------------------------------------------------------------------ bounds

\* Longest prompt typed into #prompt-input.
MaxPromptLen == 1
\* Longest text typed into #api-key-input.
MaxKeyLen == 1
\* Longest error message of a rejected API call, in phrases.
MaxMsgLen == 1
\* Most images in one API response.
MaxImages == 1
\* Most generate() calls suspended at an await at the same time.
MaxCalls == 2
\* Latest value of Date.now() in a stored history entry.
MaxTime == 2

\* ------------------------------------------------------------------- text

\* All sequences over `alphabet` of length at most n.
Texts(alphabet, n) == UNION {[1..k -> alphabet] : k \in 0..n}

\* The white-space character of the model.
WS == " "

PromptTexts == Texts({WS, "a"}, MaxPromptLen)
\* The texts typed as a key: the short ones, and one padded with white space.
KeyTexts == Texts({WS, "k"}, MaxKeyLen) \cup {<<WS, "k", WS>>}

RECURSIVE TrimStart(_)
TrimStart(s) == IF s # <<>> /\ Head(s) = WS THEN TrimStart(Tail(s)) ELSE s

RECURSIVE TrimEnd(_)
TrimEnd(s) ==
  IF s # <<>> /\ s[Len(s)] = WS THEN TrimEnd(SubSeq(s, 1, Len(s) - 1)) ELSE s

\* trim() left out.
Trim_omitted(s) == s

\* String.prototype.trim
Trim(s) == TrimEnd(TrimStart(s))

\* JavaScript truthiness of a string: the empty string is falsy.
Truthy(s) == s # <<>>

\* ------------------------------------------------------- error messages

PQuota == "You exceeded your current quota"
PNotFound == "Requested entity was not found."
PKeyInvalid == "API_KEY_INVALID"
PKeyNotValid == "API key not valid"
PPermission == "Permission denied"
PNetwork == "Network error"
PNoImages == "No images were generated. The prompt may have been blocked."
PUnknown == "An unknown error occurred."

\* What an API error message is made of.
Phrases == {PQuota, PNotFound, PKeyInvalid, PKeyNotValid, PPermission, PNetwork}

\* String.prototype.toLowerCase, phrase by phrase.
LowerPhrase(p) ==
  CASE p = PQuota -> "you exceeded your current quota"
    [] p = PNotFound -> "requested entity was not found."
    [] p = PKeyInvalid -> "api_key_invalid"
    [] p = PKeyNotValid -> "api key not valid"
    [] p = PPermission -> "permission denied"
    [] p = PNetwork -> "network error"
    [] OTHER -> p

toLowerCase(msg) == [i \in 1..Len(msg) |-> LowerPhrase(msg[i])]

\* String.prototype.includes, for a pattern of one phrase.
includes(msg, pattern) == \E i \in 1..Len(msg) : msg[i] = pattern

ErrorMessages == Texts(Phrases, MaxMsgLen)

\* What a rejected API call throws: an Error with a message, or some other value.
Thrown ==
  [isError : {TRUE}, message : ErrorMessages] \cup {[isError |-> FALSE, message |-> <<>>]}

\* new Error(message)
Error(message) == [isError |-> TRUE, message |-> message]

\* ------------------------------------------------------------- API results

ImageBytes == {"b1", "b2"}

\* response.generatedImages: undefined, or a list of images.
GeneratedImages ==
  {[defined |-> FALSE, list |-> <<>>]}
    \cup [defined : {TRUE}, list : Texts(ImageBytes, MaxImages)]

\* How the awaited ai.models.generateImages call settles.
ApiOutcomes ==
  [kind : {"resolve"}, generatedImages : GeneratedImages]
    \cup [kind : {"reject"}, e : Thrown]

\* `data:image/jpeg;base64,${base64ImageBytes}`
DataUrl(bytes) == <<"data:image/jpeg;base64,", bytes>>

\* ------------------------------------------------------------------- JSON

Q == "\""
BS == "\\"

\* JSON.stringify writes a quote as \" and a backslash as \\ inside a string;
\* JSON.parse reads them back.
Escape(c) == CASE c = Q -> "\\\"" [] c = BS -> "\\\\" [] OTHER -> c
Unescape(c) == CASE c = "\\\"" -> Q [] c = "\\\\" -> BS [] OTHER -> c

\* A string written without escaping.
JSONString_unescaped(s) == <<Q>> \o s \o <<Q>>

JSONString(s) == <<Q>> \o [n \in 1..Len(s) |-> Escape(s[n])] \o <<Q>>

JSONEntry(e) ==
  <<"{", "\"url\":">> \o JSONString(e.url)
    \o <<",", "\"prompt\":">> \o JSONString(e.prompt)
    \o <<",", "\"timestamp\":", ToString(e.timestamp), "}">>

RECURSIVE JSONEntries(_)
JSONEntries(h) ==
  IF h = <<>> THEN <<>>
  ELSE IF Len(h) = 1 THEN JSONEntry(h[1])
  ELSE JSONEntry(h[1]) \o <<",">> \o JSONEntries(Tail(h))

\* JSON.stringify of the history array / of a boolean.
JSONStringifyHistory(h) == <<"[">> \o JSONEntries(h) \o <<"]">>
\* A flag written as a JSON string.
JSONStringifyBool_quoted(b) == IF b THEN <<Q, "true", Q>> ELSE <<Q, "false", Q>>

JSONStringifyBool(b) == IF b THEN <<"true">> ELSE <<"false">>

ParseFail == [ok |-> FALSE, value |-> <<>>, next |-> 0]

Tok(t, i) == IF i \in 1..Len(t) THEN t[i] ELSE "<end>"

\* A quoted string starting at token i.
ParseString(t, i) ==
  IF Tok(t, i) # Q THEN ParseFail
  ELSE LET closing == {j \in (i + 1)..Len(t) : t[j] = Q}
       IN IF closing = {} THEN ParseFail
          ELSE LET j == CHOOSE k \in closing : \A m \in closing : k <= m
               IN [ok |-> TRUE,
                   value |-> [n \in 1..(j - i - 1) |-> Unescape(t[i + n])],
                   next |-> j + 1]

ParseNumber(t, i) ==
  LET ns == {n \in 0..MaxTime : ToString(n) = Tok(t, i)}
  IN IF ns = {} THEN [ok |-> FALSE, value |-> 0, next |-> 0]
     ELSE [ok |-> TRUE, value |-> CHOOSE n \in ns : TRUE, next |-> i + 1]

\* One history entry object starting at token i.
ParseEntry(t, i) ==
  IF Tok(t, i) # "{" \/ Tok(t, i + 1) # "\"url\":" THEN ParseFail
  ELSE LET u == ParseString(t, i + 2)
       IN IF ~u.ok \/ Tok(t, u.next) # "," \/ Tok(t, u.next + 1) # "\"prompt\":"
          THEN ParseFail
          ELSE LET p == ParseString(t, u.next + 2)
               IN IF ~p.ok \/ Tok(t, p.next) # "," \/ Tok(t, p.next + 1) # "\"timestamp\":"
                  THEN ParseFail
                  ELSE LET n == ParseNumber(t, p.next + 2)
                       IN IF ~n.ok \/ Tok(t, n.next) # "}" THEN ParseFail
                          ELSE [ok |-> TRUE,
                                value |-> [url |-> u.value, prompt |-> p.value,
                                           timestamp |-> n.value],
                                next |-> n.next + 1]

\* The entries from token i up to the closing bracket, `acc` being those read so far.
RECURSIVE ParseEntries(_, _, _)
ParseEntries(t, i, acc) ==
  LET e == ParseEntry(t, i)
  IN IF ~e.ok THEN ParseFail
     ELSE IF Tok(t, e.next) = "]" /\ e.next = Len(t)
          THEN [ok |-> TRUE, value |-> Append(acc, e.value), next |-> e.next + 1]
     ELSE IF Tok(t, e.next) = "," THEN ParseEntries(t, e.next + 1, Append(acc, e.value))
     ELSE ParseFail

\* JSON.parse of a stored history; ok = FALSE is a SyntaxError.
JSONParseHistory(t) ==
  IF t = <<"[", "]">> THEN [ok |-> TRUE, value |-> <<>>, next |-> 3]
  ELSE IF Tok(t, 1) = "[" THEN ParseEntries(t, 2, <<>>)
  ELSE ParseFail

\* JSON.parse of a stored flag.
JSONParseBool(t) ==
  IF t = <<"true">> THEN [ok |-> TRUE, value |-> TRUE]
  ELSE IF t = <<"false">> THEN [ok |-> TRUE, value |-> FALSE]
  ELSE [ok |-> FALSE, value |-> FALSE]

\* ------------------------------------------------------------------ state

VARIABLES
  prompt,             \* let prompt
  downloadLink,       \* let downloadLink; <<>> is null
  imageHistory,       \* let imageHistory
  userApiKey,         \* let userApiKey, and the value of #api-key-input
  useCustomApiKey,    \* let useCustomApiKey, and the checkbox's checked state
  localStorage,       \* the three items of the browser's localStorage
  API_KEY,            \* process.env.API_KEY; <<>> is undefined
  aistudio,           \* whether window.aistudio.openSelectKey exists
  statusEl,           \* what #status shows
  disabled,           \* the disabled property of each control
  display,            \* style.display of the elements the code shows and hides
  outputImageSrc,     \* outputImage.src
  historyContainerEl, \* the history items rendered, first shown first
  highlighted,        \* #api-key-input carries border-red-500 and ring-red-500
  focused,            \* #api-key-input is the focused element
  calls               \* the generate() calls suspended at an await

vars ==
  <<prompt, downloadLink, imageHistory, userApiKey, useCustomApiKey, localStorage,
    API_KEY, aistudio, statusEl, disabled, display, outputImageSrc,
    historyContainerEl, highlighted, focused, calls>>

IMAGE_HISTORY_KEY == "imagen_image_history"
CUSTOM_API_KEY_STORAGE_KEY == "imagen_custom_api_key"
USE_CUSTOM_KEY_STORAGE_KEY == "imagen_use_custom_api_key"

StorageKeys == {IMAGE_HISTORY_KEY, CUSTOM_API_KEY_STORAGE_KEY, USE_CUSTOM_KEY_STORAGE_KEY}

\* localStorage.getItem gives null for an item that is not there.
Null == [present |-> FALSE, value |-> <<>>]
Item(text) == [present |-> TRUE, value |-> text]

Controls ==
  {"generateButton", "promptEl", "imageSizeSelectEl", "aspectRatioSelectEl",
   "downloadButton", "clearHistoryButton", "useCustomApiKeyCheckbox", "apiKeyInputEl"}

Elements == {"outputImage", "downloadButton", "loadingSpinner", "imageHistorySection"}

\* The ambient keys the hosting environment may supply.
EnvKeys == {<<>>, <<"e">>}

NoLink == <<>>

\* -------------------------------------------------------------- status line

MsgEmptyPrompt == <<"Please enter a prompt to generate an image.">>
MsgNoDownload == <<"No image available for download.">>
MsgCleared == <<"Image history cleared.">>
MsgUnavailable ==
  <<"API key selection is not available. Please configure the API_KEY environment variable.">>
MsgNoKey ==
  <<"No API key configured. Please enter your API key or use the \"Add your API Key\" button.">>
MsgGenerating == <<"Generating image...">>
MsgSuccess == <<"Image generated successfully.">>
MsgQuota == <<"Quota exceeded. Please check your billing details on Google AI Studio.">>
MsgNotFound ==
  <<"Model not found. This can be caused by an invalid API key or permission issues. Please check your API key.">>
MsgInvalidCustom ==
  <<"The custom API key you provided is invalid or lacks necessary permissions. Please check the key in the input field.">>
MsgInvalidEnv ==
  <<"The API key managed by AI Studio is invalid or lacks necessary permissions. Please use the \"Add your API Key\" button to select a valid key.">>

\* statusEl.innerHTML = `<span class="text-red-400">${message}</span>`
showStatusError(message) == [red |-> TRUE, text |-> message]

\* statusEl.innerText = text
StatusText(text) == [red |-> FALSE, text |-> text]

\* ------------------------------------------------------------------- DOM

\* setControlsDisabled that leaves the Generate button alone.
setControlsDisabled_skipsGenerate(d) ==
  [disabled |->
     [c \in Controls |->
        CASE c = "apiKeyInputEl" -> d \/ ~useCustomApiKey
          [] c = "generateButton" -> disabled[c]
          [] OTHER -> d],
   loadingSpinner |-> IF d THEN "block" ELSE "none"]

\* setControlsDisabled that disables the Download button whatever its argument.
setControlsDisabled_downloadStuck(d) ==
  [disabled |->
     [c \in Controls |->
        CASE c = "apiKeyInputEl" -> d \/ ~useCustomApiKey
          [] c = "downloadButton" -> TRUE
          [] OTHER -> d],
   loadingSpinner |-> IF d THEN "block" ELSE "none"]

\* The disabled property of every control and the spinner's display after
\* setControlsDisabled(d).
setControlsDisabled(d) ==
  [disabled |->
     [c \in Controls |-> IF c = "apiKeyInputEl" THEN d \/ ~useCustomApiKey ELSE d],
   loadingSpinner |-> IF d THEN "block" ELSE "none"]

\* apiKeyInputEl.focus(): a disabled control is not focusable, the call then does
\* nothing. `inputDisabled` and `f` are the input's disabled property and
\* whether it has the focus when the call is made.
focus(inputDisabled, f) == IF inputDisabled THEN f ELSE TRUE

\* The focus after the input's disabled property is set: a control that becomes
\* disabled while focused loses the focus.
FocusAfterDisabling(inputDisabled, f) == IF inputDisabled THEN FALSE ELSE f

\* ---------------------------------------------------------------- history

RECURSIVE Reverse(_)
Reverse(s) == IF s = <<>> THEN <<>> ELSE Append(Reverse(Tail(s)), Head(s))

\* A render that shows the section whatever the history holds.
renderImageHistory_sectionShown(h) == [container |-> Reverse(h), section |-> "block"]

\* What renderImageHistory leaves in the container and the section's display:
\* nothing and hidden for an empty history, else the entries, latest first.
renderImageHistory(h) ==
  IF Len(h) = 0
  THEN [container |-> <<>>, section |-> "none"]
  ELSE [container |-> Reverse(h), section |-> "block"]

\* imageHistory after loadHistory() on the stored items `ls`.
loadHistory(ls) ==
  LET storedHistory == ls[IMAGE_HISTORY_KEY]
      parsed == JSONParseHistory(storedHistory.value)
  IN IF storedHistory.present /\ Truthy(storedHistory.value)
     THEN IF parsed.ok THEN parsed.value ELSE <<>>
     ELSE <<>>

\* localStorage after saveHistory() of the history h.
saveHistory(ls, h) == [ls EXCEPT ![IMAGE_HISTORY_KEY] = Item(JSONStringifyHistory(h))]

\* `generated-image-${item.timestamp}.jpeg`
HistoryFilename(item) == <<"generated-image-", ToString(item.timestamp), ".jpeg">>
DefaultFilename == <<"generated-image.jpeg">>

\* ------------------------------------------------------ custom key settings

\* A load that leaves the key input enabled when no flag is stored.
loadCustomApiKeySettings_inputLeftEnabled(ls) ==
  LET storedCustomKey == ls[CUSTOM_API_KEY_STORAGE_KEY]
      storedUseCustomKey == ls[USE_CUSTOM_KEY_STORAGE_KEY]
      key == IF storedCustomKey.present /\ Truthy(storedCustomKey.value)
             THEN storedCustomKey.value ELSE <<>>
      parsed == JSONParseBool(storedUseCustomKey.value)
  IN IF ~storedUseCustomKey.present
     THEN [userApiKey |-> key, useCustomApiKey |-> FALSE, inputDisabled |-> FALSE]
     ELSE IF parsed.ok
     THEN [userApiKey |-> key, useCustomApiKey |-> parsed.value,
           inputDisabled |-> ~parsed.value]
     ELSE [userApiKey |-> <<>>, useCustomApiKey |-> FALSE, inputDisabled |-> TRUE]

\* userApiKey, useCustomApiKey and the key input's disabled property after
\* loadCustomApiKeySettings() on the stored items `ls`.
loadCustomApiKeySettings(ls) ==
  LET storedCustomKey == ls[CUSTOM_API_KEY_STORAGE_KEY]
      storedUseCustomKey == ls[USE_CUSTOM_KEY_STORAGE_KEY]
      key == IF storedCustomKey.present /\ Truthy(storedCustomKey.value)
             THEN storedCustomKey.value ELSE <<>>
      parsed == JSONParseBool(storedUseCustomKey.value)
  IN IF ~storedUseCustomKey.present
     THEN [userApiKey |-> key, useCustomApiKey |-> FALSE, inputDisabled |-> TRUE]
     ELSE IF parsed.ok
     THEN [userApiKey |-> key, useCustomApiKey |-> parsed.value,
           inputDisabled |-> ~parsed.value]
     ELSE [userApiKey |-> <<>>, useCustomApiKey |-> FALSE, inputDisabled |-> TRUE]

\* A save that stores the key trimmed.
saveCustomApiKeySettings_trimmed(ls, key, use) ==
  [ls EXCEPT ![CUSTOM_API_KEY_STORAGE_KEY] = Item(Trim(key)),
             ![USE_CUSTOM_KEY_STORAGE_KEY] = Item(JSONStringifyBool(use))]

\* localStorage after saveCustomApiKeySettings().
saveCustomApiKeySettings(ls, key, use) ==
  [ls EXCEPT ![CUSTOM_API_KEY_STORAGE_KEY] = Item(key),
             ![USE_CUSTOM_KEY_STORAGE_KEY] = Item(JSONStringifyBool(use))]

\* ------------------------------------------------------------------- Init

E1 == [url |-> DataUrl("b1"), prompt |-> <<"a">>, timestamp |-> 1]
E2 == [url |-> DataUrl("b2"), prompt |-> <<"a", WS, "a">>, timestamp |-> 2]

\* What an earlier session, or anything else, may have left in localStorage.
StoredHistoryItems ==
  {Null, Item(JSONStringifyHistory(<<E1, E2>>)), Item(<<"not json">>)}
StoredKeyItems == {Null, Item(<<>>), Item(<<"k">>)}
StoredFlagItems == {Null, Item(<<"true">>), Item(<<"false">>), Item(<<"not json">>)}

InitialStorages ==
  {[k \in StorageKeys |->
      CASE k = IMAGE_HISTORY_KEY -> h
        [] k = CUSTOM_API_KEY_STORAGE_KEY -> c
        [] k = USE_CUSTOM_KEY_STORAGE_KEY -> u] :
     h \in StoredHistoryItems, c \in StoredKeyItems, u \in StoredFlagItems}

IdleFrame == [pc |-> "idle", activeApiKey |-> <<>>, isUsingCustomKey |-> FALSE]

\* The page after its script has run: loadHistory(), renderImageHistory(),
\* loadCustomApiKeySettings().
Init ==
  \E ls \in InitialStorages, key \in EnvKeys, ai \in BOOLEAN :
    LET h == loadHistory(ls)
        settings == loadCustomApiKeySettings(ls)
    IN /\ localStorage = ls
       /\ API_KEY = key
       /\ aistudio = ai
       /\ prompt = <<>>
       /\ downloadLink = NoLink
       /\ imageHistory = h
       /\ userApiKey = settings.userApiKey
       /\ useCustomApiKey = settings.useCustomApiKey
       /\ statusEl = StatusText(<<>>)
       /\ disabled = [c \in Controls |-> c = "apiKeyInputEl" /\ settings.inputDisabled]
       /\ display = [el \in Elements |->
                       IF el = "imageHistorySection"
                       THEN renderImageHistory(h).section ELSE ""]
       /\ outputImageSrc = NoLink
       /\ historyContainerEl = renderImageHistory(h).container
       /\ highlighted = FALSE
       /\ focused = FALSE
       /\ calls = [i \in 1..MaxCalls |-> IdleFrame]

\* ------------------------------------------------------------ UI listeners

\* promptEl 'input': typing in the prompt field, which has the focus then.
PromptInput(p) ==
  /\ ~disabled["promptEl"]
  /\ prompt' = p
  /\ focused' = FALSE
  /\ UNCHANGED <<downloadLink, imageHistory, userApiKey, useCustomApiKey, localStorage,
                 API_KEY, aistudio, statusEl, disabled, display, outputImageSrc,
                 historyContainerEl, highlighted, calls>>

\* apiKeyInputEl 'input': typing in the key field, which has the focus then.
KeyInput(k) ==
  /\ ~disabled["apiKeyInputEl"]
  /\ userApiKey' = k
  /\ localStorage' = saveCustomApiKeySettings(localStorage, k, useCustomApiKey)
  /\ highlighted' = FALSE
  /\ focused' = TRUE
  /\ UNCHANGED <<prompt, downloadLink, imageHistory, useCustomApiKey, API_KEY, aistudio,
                 statusEl, disabled, display, outputImageSrc, historyContainerEl,
                 calls>>

\* useCustomApiKeyCheckbox 'change'
ToggleChange ==
  /\ ~disabled["useCustomApiKeyCheckbox"]
  /\ useCustomApiKey' = ~useCustomApiKey
  /\ disabled' = [disabled EXCEPT !["apiKeyInputEl"] = ~useCustomApiKey']
  /\ focused' = FocusAfterDisabling(disabled'["apiKeyInputEl"], focused)
  /\ localStorage' = saveCustomApiKeySettings(localStorage, userApiKey, useCustomApiKey')
  /\ highlighted' = FALSE
  /\ UNCHANGED <<prompt, downloadLink, imageHistory, userApiKey, API_KEY, aistudio,
                 statusEl, display, outputImageSrc, historyContainerEl, calls>>

\* clearHistoryButton 'click': clearImageHistory(), then the status.
ClearHistoryClick ==
  /\ ~disabled["clearHistoryButton"]
  /\ imageHistory' = <<>>
  /\ localStorage' = saveHistory(localStorage, imageHistory')
  /\ historyContainerEl' = renderImageHistory(imageHistory').container
  /\ display' = [display EXCEPT
                   !["imageHistorySection"] = renderImageHistory(imageHistory').section]
  /\ statusEl' = showStatusError(MsgCleared)
  /\ UNCHANGED <<prompt, downloadLink, userApiKey, useCustomApiKey, API_KEY, aistudio,
                 disabled, outputImageSrc, highlighted, focused, calls>>

\* The prompts addImageToHistory is given in the history specification: the
\* empty one, a quote, and one with a backslash and a quote in it.
HistoryPrompts == {<<>>, <<Q>>, <<"a", BS, Q>>}

\* Date.now() when an entry is added: later than the latest entry's timestamp.
Now ==
  {t \in 0..MaxTime :
     imageHistory = <<>> \/ t > imageHistory[Len(imageHistory)].timestamp}

\* addImageToHistory(url, prompt) at the time `now`.
addImageToHistory(url, p, now) ==
  /\ now \in Now
  /\ imageHistory' = Append(imageHistory, [url |-> url, prompt |-> p, timestamp |-> now])
  /\ localStorage' = saveHistory(localStorage, imageHistory')
  /\ historyContainerEl' = renderImageHistory(imageHistory').container
  /\ display' = [display EXCEPT
                   !["imageHistorySection"] = renderImageHistory(imageHistory').section]
  /\ UNCHANGED <<prompt, downloadLink, userApiKey, useCustomApiKey, API_KEY, aistudio,
                 statusEl, disabled, outputImageSrc, highlighted, focused, calls>>

\* handleDownload(url, filename): the browser saves the url under the filename,
\* which changes nothing of the page, or the status says there is no url.
handleDownload(url, filename) ==
  IF Truthy(url)
  THEN UNCHANGED statusEl
  ELSE statusEl' = showStatusError(MsgNoDownload)

\* downloadButton 'click'
DownloadClick ==
  /\ ~disabled["downloadButton"]
  /\ display["downloadButton"] # "none"
  /\ IF Truthy(downloadLink)
     THEN handleDownload(downloadLink, DefaultFilename)
     ELSE statusEl' = showStatusError(MsgNoDownload)
  /\ UNCHANGED <<prompt, downloadLink, imageHistory, userApiKey, useCustomApiKey,
                 localStorage, API_KEY, aistudio, disabled, display, outputImageSrc,
                 historyContainerEl, highlighted, focused, calls>>

\* 'click' on the Download button of the i-th history item shown.
HistoryDownloadClick(i) ==
  /\ i \in 1..Len(historyContainerEl)
  /\ handleDownload(historyContainerEl[i].url, HistoryFilename(historyContainerEl[i]))
  /\ UNCHANGED <<prompt, downloadLink, imageHistory, userApiKey, useCustomApiKey,
                 localStorage, API_KEY, aistudio, disabled, display, outputImageSrc,
                 historyContainerEl, highlighted, focused, calls>>

\* --------------------------------------------------------------- generate()

FreeSlots == {i \in 1..MaxCalls : calls[i].pc = "idle"}
NewCall == CHOOSE i \in FreeSlots : \A j \in FreeSlots : i <= j

\* Key resolution that prefers the ambient key when there is one.
resolveActiveKey_ambientFirst ==
  IF useCustomApiKey /\ Truthy(Trim(userApiKey)) /\ ~Truthy(API_KEY)
  THEN [activeApiKey |-> Trim(userApiKey), isUsingCustomKey |-> TRUE]
  ELSE [activeApiKey |-> API_KEY, isUsingCustomKey |-> FALSE]

\* Key resolution that does not look at the checkbox.
resolveActiveKey_ignoresToggle ==
  IF Truthy(Trim(userApiKey))
  THEN [activeApiKey |-> Trim(userApiKey), isUsingCustomKey |-> TRUE]
  ELSE [activeApiKey |-> API_KEY, isUsingCustomKey |-> FALSE]

\* The credential generate() picks and whether it is the custom key.
resolveActiveKey ==
  IF useCustomApiKey /\ Truthy(Trim(userApiKey))
  THEN [activeApiKey |-> Trim(userApiKey), isUsingCustomKey |-> TRUE]
  ELSE [activeApiKey |-> API_KEY, isUsingCustomKey |-> FALSE]

\* An openApiKeyDialog that says nothing where there is no dialog.
openApiKeyDialog_silent(status) ==
  IF aistudio
  THEN [pending |-> TRUE, status |-> status]
  ELSE [pending |-> FALSE, status |-> status]

\* openApiKeyDialog() called when #status shows `status`: the dialog is opened
\* and awaited, or, where there is none, the status says so.
openApiKeyDialog(status) ==
  IF aistudio
  THEN [pending |-> TRUE, status |-> status]
  ELSE [pending |-> FALSE, status |-> showStatusError(MsgUnavailable)]

\* Classification with shouldOpenDialog initialised to true.
classify_dialogByDefault(errorMessage, isUsingCustomKey) ==
  IF includes(errorMessage, PQuota)
  THEN [userFriendlyMessage |-> MsgQuota, shouldOpenDialog |-> TRUE]
  ELSE IF includes(errorMessage, PNotFound)
  THEN [userFriendlyMessage |-> MsgNotFound, shouldOpenDialog |-> TRUE]
  ELSE IF \/ includes(errorMessage, PKeyInvalid)
          \/ includes(errorMessage, PKeyNotValid)
          \/ includes(toLowerCase(errorMessage), "permission denied")
  THEN [userFriendlyMessage |->
          IF isUsingCustomKey THEN MsgInvalidCustom ELSE MsgInvalidEnv,
        shouldOpenDialog |-> TRUE]
  ELSE [userFriendlyMessage |-> <<"Error: ">> \o errorMessage,
        shouldOpenDialog |-> TRUE]

\* The message shown for a failure and whether the key dialog is suggested.
classify(errorMessage, isUsingCustomKey) ==
  IF includes(errorMessage, PQuota)
  THEN [userFriendlyMessage |-> MsgQuota, shouldOpenDialog |-> TRUE]
  ELSE IF includes(errorMessage, PNotFound)
  THEN [userFriendlyMessage |-> MsgNotFound, shouldOpenDialog |-> TRUE]
  ELSE IF \/ includes(errorMessage, PKeyInvalid)
          \/ includes(errorMessage, PKeyNotValid)
          \/ includes(toLowerCase(errorMessage), "permission denied")
  THEN [userFriendlyMessage |->
          IF isUsingCustomKey THEN MsgInvalidCustom ELSE MsgInvalidEnv,
        shouldOpenDialog |-> TRUE]
  ELSE [userFriendlyMessage |-> <<"Error: ">> \o errorMessage,
        shouldOpenDialog |-> FALSE]

\* A generateImage that throws for an absent list only and takes the first
\* image of an empty one.
generateImage_emptyAccepted(r) ==
  IF r.kind = "reject"
  THEN [threw |-> TRUE, e |-> r.e, imageUrl |-> NoLink]
  ELSE IF ~r.generatedImages.defined
  THEN [threw |-> TRUE, e |-> Error(<<PNoImages>>), imageUrl |-> NoLink]
  ELSE [threw |-> FALSE, e |-> Error(<<>>),
        imageUrl |-> IF Len(r.generatedImages.list) = 0 THEN DataUrl("undefined")
                     ELSE DataUrl(r.generatedImages.list[1])]

\* generateImage() once the API call has settled with r: what it throws, or the
\* URL of the first image.
generateImage(r) ==
  IF r.kind = "reject"
  THEN [threw |-> TRUE, e |-> r.e, imageUrl |-> NoLink]
  ELSE IF ~r.generatedImages.defined \/ Len(r.generatedImages.list) = 0
  THEN [threw |-> TRUE, e |-> Error(<<PNoImages>>), imageUrl |-> NoLink]
  ELSE [threw |-> FALSE, e |-> Error(<<>>),
        imageUrl |-> DataUrl(r.generatedImages.list[1])]

\* generate() with no credential: lines 310-322.
generateNoKey(key) ==
  LET dlg == openApiKeyDialog(showStatusError(MsgNoKey))
  IN /\ IF ~key.isUsingCustomKey
        THEN /\ statusEl' = dlg.status
             /\ dlg.pending => FreeSlots # {}
             /\ calls' = IF dlg.pending
                         THEN [calls EXCEPT ![NewCall] =
                                 [pc |-> "awaitDialogNoKey",
                                  activeApiKey |-> key.activeApiKey,
                                  isUsingCustomKey |-> key.isUsingCustomKey]]
                         ELSE calls
             /\ UNCHANGED <<focused, highlighted>>
        ELSE /\ statusEl' = showStatusError(MsgNoKey)
             /\ focused' = focus(disabled["apiKeyInputEl"], focused)
             /\ highlighted' = TRUE
             /\ UNCHANGED calls
     /\ UNCHANGED <<prompt, downloadLink, imageHistory, userApiKey, useCustomApiKey,
                    localStorage, API_KEY, aistudio, disabled, display, outputImageSrc,
                    historyContainerEl>>

\* A request set up without the reset of downloadLink.
generateRequest_linkKept(key) ==
  /\ FreeSlots # {}
  /\ highlighted' = FALSE
  /\ statusEl' = StatusText(MsgGenerating)
  /\ display' = [display EXCEPT !["outputImage"] = "none",
                                !["downloadButton"] = "none",
                                !["loadingSpinner"] = setControlsDisabled(TRUE).loadingSpinner]
  /\ disabled' = setControlsDisabled(TRUE).disabled
  /\ focused' = FocusAfterDisabling(disabled'["apiKeyInputEl"], focused)
  /\ calls' = [calls EXCEPT ![NewCall] =
                 [pc |-> "awaitApi", activeApiKey |-> key.activeApiKey,
                  isUsingCustomKey |-> key.isUsingCustomKey]]
  /\ UNCHANGED <<prompt, downloadLink, imageHistory, userApiKey, useCustomApiKey,
                 localStorage, API_KEY, aistudio, outputImageSrc, historyContainerEl>>

\* generate() with a credential, up to the await of generateImage: lines 323-335.
generateRequest(key) ==
  /\ FreeSlots # {}
  /\ highlighted' = FALSE
  /\ statusEl' = StatusText(MsgGenerating)
  /\ display' = [display EXCEPT !["outputImage"] = "none",
                                !["downloadButton"] = "none",
                                !["loadingSpinner"] = setControlsDisabled(TRUE).loadingSpinner]
  /\ downloadLink' = NoLink
  /\ disabled' = setControlsDisabled(TRUE).disabled
  /\ focused' = FocusAfterDisabling(disabled'["apiKeyInputEl"], focused)
  /\ calls' = [calls EXCEPT ![NewCall] =
                 [pc |-> "awaitApi", activeApiKey |-> key.activeApiKey,
                  isUsingCustomKey |-> key.isUsingCustomKey]]
  /\ UNCHANGED <<prompt, imageHistory, userApiKey, useCustomApiKey, localStorage,
                 API_KEY, aistudio, outputImageSrc, historyContainerEl>>

generate ==
  LET key == resolveActiveKey
  IN IF ~Truthy(key.activeApiKey) THEN generateNoKey(key) ELSE generateRequest(key)

\* A click listener that forgets the history when the prompt is blank.
GenerateClick_forgetsHistory ==
  /\ ~disabled["generateButton"]
  /\ IF ~Truthy(Trim(prompt))
     THEN /\ statusEl' = showStatusError(MsgEmptyPrompt)
          /\ imageHistory' = <<>>
          /\ UNCHANGED <<prompt, downloadLink, userApiKey, useCustomApiKey,
                         localStorage, API_KEY, aistudio, disabled, display,
                         outputImageSrc, historyContainerEl, highlighted, focused,
                         calls>>
     ELSE generate

\* generateButton 'click'
GenerateClick ==
  /\ ~disabled["generateButton"]
  /\ IF ~Truthy(Trim(prompt))
     THEN /\ statusEl' = showStatusError(MsgEmptyPrompt)
          /\ UNCHANGED <<prompt, downloadLink, imageHistory, userApiKey,
                         useCustomApiKey, localStorage, API_KEY, aistudio, disabled,
                         display, outputImageSrc, historyContainerEl, highlighted,
                         focused, calls>>
     ELSE generate

\* A finally block that hides the spinner and leaves the controls as they are.
Finally_spinnerOnly(shown) ==
  /\ disabled' = disabled
  /\ display' = [shown EXCEPT !["loadingSpinner"] = "none"]

\* The finally block of generate(): setControlsDisabled(false).  `shown` is the
\* display of the elements before it.
Finally(shown) ==
  /\ disabled' = setControlsDisabled(FALSE).disabled
  /\ display' = [shown EXCEPT !["loadingSpinner"] = setControlsDisabled(FALSE).loadingSpinner]

\* The awaited API call of call i settles with r and generate() runs on to its
\* next await or its end: lines 53-65 and 335-384.
ApiSettles(i, r) ==
  /\ calls[i].pc = "awaitApi"
  /\ LET isUsingCustomKey == calls[i].isUsingCustomKey
         res == generateImage(r)
         errorMessage == IF res.e.isError THEN res.e.message ELSE <<PUnknown>>
         c == classify(errorMessage, isUsingCustomKey)
         dlg == openApiKeyDialog(showStatusError(c.userFriendlyMessage))
     IN IF ~res.threw
        THEN /\ outputImageSrc' = res.imageUrl
             /\ downloadLink' = res.imageUrl
             /\ statusEl' = StatusText(MsgSuccess)
             /\ Finally([display EXCEPT !["outputImage"] = "block",
                                        !["downloadButton"] = "block"])
             /\ calls' = [calls EXCEPT ![i] = IdleFrame]
             /\ focused' = FocusAfterDisabling(disabled'["apiKeyInputEl"], focused)
             /\ UNCHANGED highlighted
        ELSE /\ UNCHANGED <<outputImageSrc, downloadLink>>
             /\ IF c.shouldOpenDialog /\ ~isUsingCustomKey
                THEN /\ statusEl' = dlg.status
                     /\ UNCHANGED <<highlighted, focused>>
                     /\ IF dlg.pending
                        THEN /\ calls' = [calls EXCEPT ![i].pc = "awaitDialogFailed"]
                             /\ UNCHANGED <<disabled, display>>
                        ELSE /\ calls' = [calls EXCEPT ![i] = IdleFrame]
                             /\ Finally(display)
                ELSE /\ statusEl' = showStatusError(c.userFriendlyMessage)
                     /\ highlighted' = (isUsingCustomKey \/ highlighted)
                     /\ Finally(display)
                     /\ focused' =
                          FocusAfterDisabling(
                            disabled'["apiKeyInputEl"],
                            IF isUsingCustomKey
                            THEN focus(disabled["apiKeyInputEl"], focused)
                            ELSE focused)
                     /\ calls' = [calls EXCEPT ![i] = IdleFrame]
  /\ UNCHANGED <<prompt, imageHistory, userApiKey, useCustomApiKey, localStorage,
                 API_KEY, aistudio, historyContainerEl>>

\* The key the environment supplies once the key dialog has settled: the one
\* there was, or the one selected.
KeysAfterDialog == {k \in EnvKeys : k = API_KEY \/ Truthy(k)}

\* The dialog awaited at line 317 settles; generate() returns.
DialogSettlesNoKey(i, k) ==
  /\ calls[i].pc = "awaitDialogNoKey"
  /\ k \in KeysAfterDialog
  /\ API_KEY' = k
  /\ calls' = [calls EXCEPT ![i] = IdleFrame]
  /\ UNCHANGED <<prompt, downloadLink, imageHistory, userApiKey, useCustomApiKey,
                 localStorage, aistudio, statusEl, disabled, display, outputImageSrc,
                 historyContainerEl, highlighted, focused>>

\* The dialog awaited at line 376 settles; the finally block runs.
DialogSettlesFailed(i, k) ==
  /\ calls[i].pc = "awaitDialogFailed"
  /\ k \in KeysAfterDialog
  /\ API_KEY' = k
  /\ calls' = [calls EXCEPT ![i] = IdleFrame]
  /\ Finally(display)
  /\ focused' = FocusAfterDisabling(disabled'["apiKeyInputEl"], focused)
  /\ UNCHANGED <<prompt, downloadLink, imageHistory, userApiKey, useCustomApiKey,
                 localStorage, aistudio, statusEl, outputImageSrc, historyContainerEl,
                 highlighted>>

\* ------------------------------------------------------------ specification

Next ==
  \/ \E p \in PromptTexts : PromptInput(p)
  \/ \E k \in KeyTexts : KeyInput(k)
  \/ ToggleChange
  \/ ClearHistoryClick
  \/ DownloadClick
  \/ \E i \in 1..Len(historyContainerEl) : HistoryDownloadClick(i)
  \/ GenerateClick
  \/ \E i \in 1..MaxCalls, r \in ApiOutcomes : ApiSettles(i, r)
  \/ \E i \in 1..MaxCalls, k \in EnvKeys : DialogSettlesNoKey(i, k)
  \/ \E i \in 1..MaxCalls, k \in EnvKeys : DialogSettlesFailed(i, k)

Spec == Init /\ [][Next]_vars

\* A promise a generate() call awaits while it holds the controls disabled
\* settles: the API call of line 335 answers or fails, or the key dialog of
\* line 376 is closed.
AwaitSettles ==
  \E i \in {j \in 1..MaxCalls : calls[j].pc \in {"awaitApi", "awaitDialogFailed"}} :
    \/ \E r \in ApiOutcomes : ApiSettles(i, r)
    \/ \E k \in EnvKeys : DialogSettlesFailed(i, k)

\* The page with every such promise settling in the end.
FairSpec == Spec /\ WF_vars(AwaitSettles)

\* The history store by itself: entries are appended and the history cleared, on
\* a page with no key stored and none in the environment.
HistoryInit ==
  /\ Init
  /\ ~localStorage[CUSTOM_API_KEY_STORAGE_KEY].present
  /\ ~localStorage[USE_CUSTOM_KEY_STORAGE_KEY].present
  /\ ~Truthy(API_KEY)
  /\ ~aistudio

HistoryNext ==
  \/ \E b \in ImageBytes, p \in HistoryPrompts, now \in 0..MaxTime :
       addImageToHistory(DataUrl(b), p, now)
  \/ ClearHistoryClick

HistorySpec == HistoryInit /\ [][HistoryNext]_vars

\* ------------------------------------------------------------------ claims

\* A text of white space only.
IsBlank(s) == \A n \in 1..Len(s) : s[n] = WS

\* The calls whose API request is in flight.
InFlight == {i \in 1..MaxCalls : calls[i].pc = "awaitApi"}

\* The calls that have disabled the controls and not yet run their finally block.
BusyCalls == {i \in 1..MaxCalls : calls[i].pc \in {"awaitApi", "awaitDialogFailed"}}

\* The controls setControlsDisabled sets to its argument.
GenerationControls == Controls \ {"apiKeyInputEl"}

\* C1: at most one image-generation request is in flight at any time, also while
\* another generate() call still awaits the key dialog of the no-credential path.
C1_OneRequestInFlight == Cardinality(InFlight) <= 1

\* A request is in flight while an earlier generate() call awaits the key dialog.
C1_Witness ==
  \E i, j \in 1..MaxCalls : calls[i].pc = "awaitApi" /\ calls[j].pc = "awaitDialogNoKey"

\* C2: a generate() call that disabled the controls leaves every one of them
\* enabled and the spinner hidden when it ends, whatever the outcome; and when no
\* request is in flight and no failure handler pending, the controls are enabled.
C2_ControlsReenabled ==
  /\ [](BusyCalls = {} => \A c \in GenerationControls : ~disabled[c])
  /\ [][\A i \in 1..MaxCalls :
          (i \in BusyCalls /\ calls'[i].pc = "idle")
            => /\ \A c \in GenerationControls : ~disabled'[c]
               /\ display'["loadingSpinner"] = "none"]_vars

\* A request made with the custom key has failed and its call has ended.
C2_Witness ==
  /\ BusyCalls = {}
  /\ statusEl = showStatusError(MsgInvalidCustom)
  /\ display["loadingSpinner"] = "none"

\* C3: a generation that succeeds appends exactly one entry to the history, holding
\* the image's URL and the prompt, and that entry is the first one shown.
C3_SuccessAppendsToHistory ==
  [][\A i \in 1..MaxCalls :
       (calls[i].pc = "awaitApi" /\ calls'[i].pc = "idle"
          /\ statusEl' = StatusText(MsgSuccess))
         => /\ Len(imageHistory') = Len(imageHistory) + 1
            /\ SubSeq(imageHistory', 1, Len(imageHistory)) = imageHistory
            /\ imageHistory'[Len(imageHistory')].url = downloadLink'
            /\ imageHistory'[Len(imageHistory')].prompt = prompt
            /\ historyContainerEl' # <<>>
            /\ historyContainerEl'[1] = imageHistory'[Len(imageHistory')]]_vars

\* C4: a click on Generate with an empty or white-space-only prompt only sets the
\* status to the empty-prompt message: no request, no call left pending, no key
\* dialog, no control disabled.
C4_BlankPromptRejected ==
  [][(IsBlank(prompt) /\ GenerateClick)
       => /\ statusEl' = showStatusError(MsgEmptyPrompt)
          /\ calls' = calls
          /\ disabled' = disabled
          /\ display' = display
          /\ UNCHANGED <<downloadLink, highlighted, focused, API_KEY>>]_vars

\* The empty-prompt message shows for a prompt of white space, nothing pending.
C4_Witness ==
  /\ prompt # <<>>
  /\ IsBlank(prompt)
  /\ statusEl = showStatusError(MsgEmptyPrompt)
  /\ \A i \in 1..MaxCalls : calls[i].pc = "idle"

\* C5: with the custom key switched on but blank and no ambient key, generate()
\* ends with the no-credential status and the key field focused and highlighted,
\* without a request and without the key dialog.
C5_BlankManualKeyHighlightsField ==
  [][(~IsBlank(prompt) /\ useCustomApiKey /\ IsBlank(userApiKey) /\ ~Truthy(API_KEY)
        /\ GenerateClick)
       => /\ statusEl' = showStatusError(MsgNoKey)
          /\ focused'
          /\ highlighted'
          /\ calls' = calls]_vars

\* C6: with the custom key switched on and not blank, generate() makes its request
\* with the trimmed custom key and isUsingCustomKey set, whatever the ambient key.
C6_ManualKeyResolved ==
  [][(~IsBlank(prompt) /\ useCustomApiKey /\ ~IsBlank(userApiKey) /\ GenerateClick)
       => \E i \in 1..MaxCalls :
            /\ calls[i].pc = "idle"
            /\ calls' = [calls EXCEPT ![i] =
                           [pc |-> "awaitApi", activeApiKey |-> Trim(userApiKey),
                            isUsingCustomKey |-> TRUE]]
            /\ calls'[i].activeApiKey # API_KEY]_vars

\* A request made with the padded custom key while there is an ambient key.
C6_Witness ==
  \E i \in 1..MaxCalls :
    /\ calls[i] = [pc |-> "awaitApi", activeApiKey |-> <<"k">>, isUsingCustomKey |-> TRUE]
    /\ userApiKey = <<WS, "k", WS>>
    /\ Truthy(API_KEY)

\* C7: with the custom key switched off, generate() resolves the ambient key with
\* isUsingCustomKey unset whatever the key field holds: a request is made with the
\* ambient key when there is one, and none is made when there is none.
C7_AmbientKeyResolved ==
  [][(~IsBlank(prompt) /\ ~useCustomApiKey /\ GenerateClick)
       => /\ \A i \in 1..MaxCalls :
               (calls[i].pc = "idle" /\ calls'[i].pc # "idle")
                 => /\ calls'[i].activeApiKey = API_KEY
                    /\ ~calls'[i].isUsingCustomKey
                    /\ calls'[i].pc = IF Truthy(API_KEY) THEN "awaitApi"
                                      ELSE "awaitDialogNoKey"
          /\ Truthy(API_KEY) => \E i \in 1..MaxCalls :
                                  calls[i].pc = "idle" /\ calls'[i].pc = "awaitApi"]_vars

\* A request made with the ambient key while the key field holds a key.
C7_Witness ==
  \E i \in 1..MaxCalls :
    /\ calls[i].pc = "awaitApi"
    /\ ~calls[i].isUsingCustomKey
    /\ calls[i].activeApiKey = API_KEY
    /\ ~useCustomApiKey
    /\ Truthy(Trim(userApiKey))

\* An error message that matches none of the patterns generate() looks for.
MatchesNoPattern(m) ==
  /\ ~includes(m, PQuota)
  /\ ~includes(m, PNotFound)
  /\ ~includes(m, PKeyInvalid)
  /\ ~includes(m, PKeyNotValid)
  /\ ~includes(toLowerCase(m), "permission denied")

\* The outcomes of the API call that make generateImage throw an Error of class
\* Unknown.
UnknownFailures ==
  {r \in ApiOutcomes :
     /\ generateImage(r).threw
     /\ generateImage(r).e.isError
     /\ MatchesNoPattern(generateImage(r).e.message)}

\* The API call rejected with an Error whose message contains the quota phrase.
QuotaFailures ==
  {r \in ApiOutcomes : r.kind = "reject" /\ r.e.isError /\ includes(r.e.message, PQuota)}

\* C8: when a request fails with a message containing "You exceeded your current
\* quota", the status is the quota-exceeded message, and if the ambient key was in
\* use the key dialog is opened.
C8_QuotaMessageShown ==
  [][\A i \in InFlight : \A r \in QuotaFailures :
       ApiSettles(i, r)
         => /\ statusEl' = showStatusError(MsgQuota)
            /\ (~calls[i].isUsingCustomKey /\ aistudio)
                 => calls'[i].pc = "awaitDialogFailed"]_vars

\* C9, as stated: after a failure of class Unknown the status shows the raw
\* message, the key dialog is not opened, and the key field is neither focused
\* nor highlighted, whichever key was in use.
C9_UnknownNoCorrectiveAction ==
  [][\A i \in InFlight : \A r \in UnknownFailures :
       ApiSettles(i, r)
         => /\ statusEl' = showStatusError(<<"Error: ">> \o generateImage(r).e.message)
            /\ calls'[i].pc = "idle"
            /\ ~highlighted'
            /\ focused' = focused]_vars

\* C9, amended: after a failure of class Unknown the status shows "Error: " and
\* the raw message and the key dialog is not opened; with the ambient key in use
\* the key field is neither highlighted nor given the focus, with the custom key
\* in use it is highlighted, and not given the focus.
C9_UnknownHighlightsManualKey ==
  [][\A i \in InFlight : \A r \in UnknownFailures :
       ApiSettles(i, r)
         => /\ statusEl' = showStatusError(<<"Error: ">> \o generateImage(r).e.message)
            /\ calls'[i].pc = "idle"
            /\ highlighted' = calls[i].isUsingCustomKey
            /\ focused' = focused]_vars

\* A request made with the custom key has failed with a network error.
C9_Witness ==
  /\ statusEl = showStatusError(<<"Error: ", PNetwork>>)
  /\ highlighted
  /\ BusyCalls = {}

\* C10: an attempt made with the custom key never opens the key dialog, and its
\* failure focuses and highlights the key field; an attempt made with the ambient
\* key never highlights the key field.
C10_DialogOnlyForAmbientKey ==
  [][\A i \in InFlight : \A r \in ApiOutcomes :
       ApiSettles(i, r)
         => IF calls[i].isUsingCustomKey
            THEN /\ calls'[i].pc = "idle"
                 /\ statusEl' # showStatusError(MsgUnavailable)
                 /\ generateImage(r).threw => (focused' /\ highlighted')
            ELSE ~highlighted']_vars

\* The controls are as the finally block of generate() leaves them.
ControlsReenabled ==
  /\ \A c \in GenerationControls : ~disabled[c]
  /\ disabled["apiKeyInputEl"] = ~useCustomApiKey
  /\ display["loadingSpinner"] = "none"

\* C11: when the awaited API call and the awaited key dialog settle in the end,
\* every generate() call that has disabled the controls ends, with no call left
\* that holds them disabled, every control enabled and the spinner hidden.
C11_RequestEventuallyEnds == (BusyCalls # {}) ~> (BusyCalls = {} /\ ControlsReenabled)

\* A request made with the ambient key has failed for its key, the key dialog
\* was opened and closed, and the call has ended.
C11_Witness ==
  /\ aistudio
  /\ statusEl = showStatusError(MsgInvalidEnv)
  /\ BusyCalls = {}
  /\ ControlsReenabled

\* C12: after any appends and clears, loadHistory() on what is stored gives the
\* history in memory: the same entries in the same order, each with its prompt,
\* URL and timestamp.
C12_HistoryRoundTrip == loadHistory(localStorage) = imageHistory

\* Two entries added after a clear, stored, the later with a quote and a
\* backslash in its prompt.
C12_Witness ==
  /\ statusEl = showStatusError(MsgCleared)
  /\ Len(imageHistory) = 2
  /\ imageHistory[2].prompt = <<"a", BS, Q>>
  /\ localStorage[IMAGE_HISTORY_KEY] = Item(JSONStringifyHistory(imageHistory))

\* C13: whatever the history holds, a click on Clear leaves the history in
\* memory empty, the empty list stored, no entry rendered and the history
\* section hidden.
C13_ClearEmptiesHistory ==
  [][ClearHistoryClick
       => /\ imageHistory' = <<>>
          /\ localStorage'[IMAGE_HISTORY_KEY] = Item(<<"[", "]">>)
          /\ loadHistory(localStorage') = <<>>
          /\ historyContainerEl' = <<>>
          /\ display'["imageHistorySection"] = "none"]_vars

\* The history has been cleared: nothing in memory, "[]" stored, nothing shown.
C13_Witness ==
  /\ statusEl = showStatusError(MsgCleared)
  /\ imageHistory = <<>>
  /\ localStorage[IMAGE_HISTORY_KEY] = Item(<<"[", "]">>)
  /\ historyContainerEl = <<>>
  /\ display["imageHistorySection"] = "none"

\* What is stored of the key settings is what the page holds in memory.
SettingsStored(ls, key, use) ==
  /\ ls[CUSTOM_API_KEY_STORAGE_KEY] = Item(key)
  /\ ls[USE_CUSTOM_KEY_STORAGE_KEY] = Item(JSONStringifyBool(use))

\* C14: after every input event of the key field and every change event of the
\* checkbox, the stored key is userApiKey as typed, the stored flag is
\* useCustomApiKey, and the key field is not highlighted.
C14_SettingsWrittenThrough ==
  [][((\E k \in KeyTexts : KeyInput(k)) \/ ToggleChange)
       => /\ SettingsStored(localStorage', userApiKey', useCustomApiKey')
          /\ ~highlighted']_vars

\* A request with the custom key failed, which highlighted the key field; the
\* padded key typed since is stored as typed and the highlight is gone.
C14_Witness ==
  /\ statusEl = showStatusError(MsgInvalidCustom)
  /\ BusyCalls = {}
  /\ ~highlighted
  /\ userApiKey = <<WS, "k", WS>>
  /\ SettingsStored(localStorage, userApiKey, useCustomApiKey)

\* A step of a generation attempt: the click on Generate, or a generate() call
\* going on from an await.
AttemptStep == GenerateClick \/ calls' # calls

\* The step in which a request succeeds.
SuccessStep ==
  \E i \in InFlight : calls'[i].pc = "idle" /\ statusEl' = StatusText(MsgSuccess)

\* C15: no step of a generation attempt other than the success of its request
\* (the rejection of a blank prompt, the no-credential path, the start of the
\* request, its failure, the closing of the key dialog) changes the history in
\* memory or the stored history.
C15_FailureKeepsHistory ==
  [][(AttemptStep /\ ~SuccessStep)
       => /\ imageHistory' = imageHistory
          /\ localStorage'[IMAGE_HISTORY_KEY] = localStorage[IMAGE_HISTORY_KEY]]_vars

\* A request has come back with no image while the history holds two entries.
C15_Witness ==
  /\ statusEl = showStatusError(<<"Error: ", PNoImages>>)
  /\ BusyCalls = {}
  /\ imageHistory = <<E1, E2>>
  /\ localStorage[IMAGE_HISTORY_KEY] = Item(JSONStringifyHistory(<<E1, E2>>))

\* The API call resolved with no list of images, or with an empty one.
EmptyResults ==
  {r \in ApiOutcomes :
     /\ r.kind = "resolve"
     /\ ~r.generatedImages.defined \/ Len(r.generatedImages.list) = 0}

\* C16: when the API call resolves with an absent or empty list of images, the
\* call ends with the image and the download button hidden, downloadLink null,
\* the no-images error in the status, and the controls enabled again.
C16_NoImagesIsFailure ==
  [][\A i \in InFlight : \A r \in EmptyResults :
       ApiSettles(i, r)
         => /\ statusEl' = showStatusError(<<"Error: ", PNoImages>>)
            /\ display'["outputImage"] = "none"
            /\ display'["downloadButton"] = "none"
            /\ downloadLink' = NoLink
            /\ calls'[i].pc = "idle"
            /\ ControlsReenabled']_vars

\* A request has come back with no image: nothing to show, nothing to download,
\* the controls enabled.
C16_Witness ==
  /\ statusEl = showStatusError(<<"Error: ", PNoImages>>)
  /\ BusyCalls = {}
  /\ display["outputImage"] = "none"
  /\ display["downloadButton"] = "none"
  /\ downloadLink = NoLink
  /\ ControlsReenabled

\* The failures after which generate() suggests the key dialog: an Error whose
\* message matches one of the patterns.
DialogFailures ==
  {r \in ApiOutcomes :
     /\ r.kind = "reject"
     /\ r.e.isError
     /\ ~MatchesNoPattern(r.e.message)}

\* C17: where window.aistudio offers no key dialog, a generate() call that gets to
\* openApiKeyDialog() shows the key-selection-unavailable status and ends: on the
\* no-credential path nothing is left pending and the controls stay as they
\* are; after a failed request with the ambient key the call ends with the
\* controls enabled again.
C17_NoDialogSaysSo ==
  /\ [][(/\ ~aistudio
          /\ ~IsBlank(prompt)
          /\ ~Truthy(resolveActiveKey.activeApiKey)
          /\ ~resolveActiveKey.isUsingCustomKey
          /\ GenerateClick)
         => /\ statusEl' = showStatusError(MsgUnavailable)
            /\ calls' = calls
            /\ disabled' = disabled
            /\ display' = display
            /\ \A c \in GenerationControls : ~disabled'[c]]_vars
  /\ [][~aistudio
         => \A i \in InFlight : \A r \in DialogFailures :
              (~calls[i].isUsingCustomKey /\ ApiSettles(i, r))
                => /\ statusEl' = showStatusError(MsgUnavailable)
                   /\ calls'[i].pc = "idle"
                   /\ ControlsReenabled']_vars

\* With no key dialog to open, a request made with the ambient key has failed
\* for its key and the call has ended.
C17_Witness ==
  /\ ~aistudio
  /\ statusEl = showStatusError(MsgUnavailable)
  /\ display["outputImage"] = "none"
  /\ \A i \in 1..MaxCalls : calls[i].pc = "idle"
  /\ ControlsReenabled

\* C18: while no generate() call holds the controls disabled, the key input is
\* disabled exactly when useCustomApiKey is false; while one does, the key input
\* is disabled whatever useCustomApiKey is.
C18_KeyInputTracksToggle ==
  IF BusyCalls = {}
  THEN disabled["apiKeyInputEl"] = ~useCustomApiKey
  ELSE disabled["apiKeyInputEl"]

\* A request is in flight with the custom key switched on and the flag stored.
C18_Witness ==
  /\ InFlight # {}
  /\ useCustomApiKey
  /\ disabled["apiKeyInputEl"]
  /\ localStorage[USE_CUSTOM_KEY_STORAGE_KEY] = Item(<<"true">>)
  /\ localStorage[CUSTOM_API_KEY_STORAGE_KEY] = Item(<<WS, "k", WS>>)

\* The generated image and its download button are hidden / shown.
ImageHidden == display["outputImage"] = "none" /\ display["downloadButton"] = "none"
ImageShown == display["outputImage"] = "block" /\ display["downloadButton"] = "block"

\* The API call resolved with an image.
ImageResults == {r \in ApiOutcomes : ~generateImage(r).threw}

\* C19: downloadLink is null, and the image and the download button hidden, as
\* long as a generate() call holds the controls; when its request succeeds
\* downloadLink becomes the URL of the new image, shown with its button; when it
\* fails downloadLink stays null and both stay hidden, whatever was generated
\* before; and nothing else changes downloadLink than the start of a request
\* and its success.
C19_DownloadLinkOfLastRequest ==
  /\ [](BusyCalls # {} => (downloadLink = NoLink /\ ImageHidden))
  /\ [][\A i \in InFlight :
          /\ \A r \in ImageResults :
               ApiSettles(i, r)
                 => /\ downloadLink' = DataUrl(r.generatedImages.list[1])
                    /\ outputImageSrc' = downloadLink'
                    /\ ImageShown'
          /\ (calls'[i].pc # "awaitApi" /\ ~SuccessStep)
               => (downloadLink' = NoLink /\ ImageHidden')]_vars
  /\ [][downloadLink' # downloadLink
          => \/ downloadLink' = NoLink /\ InFlight = {} /\ InFlight' # {}
             \/ downloadLink = NoLink /\ SuccessStep]_vars

\* After an image was generated, a later request has failed: the image is still
\* the source of the output element, hidden, and there is nothing to download.
C19_Witness ==
  /\ outputImageSrc # NoLink
  /\ downloadLink = NoLink
  /\ ImageHidden
  /\ BusyCalls = {}
  /\ statusEl = showStatusError(<<"Error: ", PNetwork>>)

\* The stored flag is there and JSON.parse throws on it.
FlagUnreadable ==
  /\ localStorage[USE_CUSTOM_KEY_STORAGE_KEY].present
  /\ ~JSONParseBool(localStorage[USE_CUSTOM_KEY_STORAGE_KEY].value).ok

====
